---- MODULE Spec2Model ----
(***************************************************************************)
(* TrailSense backend: the Golioth webhook ingestion pipeline.             *)
(*                                                                         *)
(* Modelled from src/src/controllers/goliothWebhookController.ts (the      *)
(* current handler, lines 1-213), the threat classifier in                 *)
(* src/src/types/index.ts, the websocket service in src/unnamed/part_003   *)
(* and the Prisma schema printed in src/unnamed/part_004.                  *)
(*                                                                         *)
(* JavaScript values are records with a "type" field, so that typeof,      *)
(* truthiness, ?? and || are computed the way the language computes them.  *)
(* Strings the code takes apart (path, mac) are sequences of tokens.       *)
(***************************************************************************)
EXTENDS Integers, Sequences, FiniteSets, TLC

(***************************************************************************)
(* JavaScript values                                                       *)
(***************************************************************************)
Undefined == [type |-> "undefined"]
Null == [type |-> "null"]
NaN == [type |-> "NaN"]
Num(n) == [type |-> "number", val |-> n]
Str(s) == [type |-> "string", val |-> s]

\* typeof x
TypeOf(x) ==
  CASE x.type = "NaN" -> "number"
    [] x.type = "null" -> "object"
    [] OTHER -> x.type

\* isNaN(x), for x of typeof 'number'
IsNaN(x) == x.type = "NaN"

\* the truthiness of x, as in `if (x)`, `!x`, `x && y`, `x || y`, `x ? y : z`
Truthy(x) ==
  CASE x.type = "undefined" -> FALSE
    [] x.type = "null" -> FALSE
    [] x.type = "NaN" -> FALSE
    [] x.type = "number" -> x.val # 0
    [] x.type = "string" -> x.val # <<>>
    [] OTHER -> TRUE

\* a ?? b
Coalesce(a, b) == IF a.type \in {"undefined", "null"} THEN b ELSE a

\* a || b
OrElse(a, b) == IF Truthy(a) THEN a ELSE b

(***************************************************************************)
(* Threat classifier (services/threatClassifier)                           *)
(***************************************************************************)
\* the band limits taken inclusive
calculateThreatLevel_Inclusive(rssi, zone, detectionType) ==
  LET safeRssi == IF TypeOf(rssi) = "number" /\ ~IsNaN(rssi) THEN rssi.val ELSE -100
      safeZone == IF TypeOf(zone) = "number" /\ ~IsNaN(zone) THEN zone.val ELSE 3
      s1 == IF detectionType = "c" THEN 40 ELSE 0
      s2 == IF safeRssi >= -50 THEN s1 + 30
            ELSE IF safeRssi >= -70 THEN s1 + 15
            ELSE s1
      score == IF safeZone = 0 THEN s2 + 20
               ELSE IF safeZone = 1 THEN s2 + 10
               ELSE s2
  IN  IF score >= 70 THEN "critical"
      ELSE IF score >= 50 THEN "high"
      ELSE IF score >= 30 THEN "medium"
      ELSE "low"

\* the kind left out of the score
calculateThreatLevel_KindBlind(rssi, zone, detectionType) ==
  LET safeRssi == IF TypeOf(rssi) = "number" /\ ~IsNaN(rssi) THEN rssi.val ELSE -100
      safeZone == IF TypeOf(zone) = "number" /\ ~IsNaN(zone) THEN zone.val ELSE 3
      s2 == IF safeRssi > -50 THEN 30
            ELSE IF safeRssi > -70 THEN 15
            ELSE 0
      score == IF safeZone = 0 THEN s2 + 20
               ELSE IF safeZone = 1 THEN s2 + 10
               ELSE s2
  IN  IF score >= 70 THEN "critical"
      ELSE IF score >= 50 THEN "high"
      ELSE IF score >= 30 THEN "medium"
      ELSE "low"

\* the two strength bands with their weights exchanged
calculateThreatLevel_BandsExchanged(rssi, zone, detectionType) ==
  LET safeRssi == IF TypeOf(rssi) = "number" /\ ~IsNaN(rssi) THEN rssi.val ELSE -100
      safeZone == IF TypeOf(zone) = "number" /\ ~IsNaN(zone) THEN zone.val ELSE 3
      s1 == IF detectionType = "c" THEN 40 ELSE 0
      s2 == IF safeRssi > -50 THEN s1 + 15
            ELSE IF safeRssi > -70 THEN s1 + 30
            ELSE s1
      score == IF safeZone = 0 THEN s2 + 20
               ELSE IF safeZone = 1 THEN s2 + 10
               ELSE s2
  IN  IF score >= 70 THEN "critical"
      ELSE IF score >= 50 THEN "high"
      ELSE IF score >= 30 THEN "medium"
      ELSE "low"

\* zone 1 weighted 15 instead of 10
calculateThreatLevel_NearWeighted(rssi, zone, detectionType) ==
  LET safeRssi == IF TypeOf(rssi) = "number" /\ ~IsNaN(rssi) THEN rssi.val ELSE -100
      safeZone == IF TypeOf(zone) = "number" /\ ~IsNaN(zone) THEN zone.val ELSE 3
      s1 == IF detectionType = "c" THEN 40 ELSE 0
      s2 == IF safeRssi > -50 THEN s1 + 30
            ELSE IF safeRssi > -70 THEN s1 + 15
            ELSE s1
      score == IF safeZone = 0 THEN s2 + 20
               ELSE IF safeZone = 1 THEN s2 + 15
               ELSE s2
  IN  IF score >= 70 THEN "critical"
      ELSE IF score >= 50 THEN "high"
      ELSE IF score >= 30 THEN "medium"
      ELSE "low"

calculateThreatLevel(rssi, zone, detectionType) ==
  LET safeRssi == IF TypeOf(rssi) = "number" /\ ~IsNaN(rssi) THEN rssi.val ELSE -100
      safeZone == IF TypeOf(zone) = "number" /\ ~IsNaN(zone) THEN zone.val ELSE 3
      s0 == 0
      s1 == IF detectionType = "c" THEN s0 + 40 ELSE s0
      s2 == IF safeRssi > -50 THEN s1 + 30
            ELSE IF safeRssi > -70 THEN s1 + 15
            ELSE s1
      score == IF safeZone = 0 THEN s2 + 20
               ELSE IF safeZone = 1 THEN s2 + 10
               ELSE s2
  IN  IF score >= 70 THEN "critical"
      ELSE IF score >= 50 THEN "high"
      ELSE IF score >= 30 THEN "medium"
      ELSE "low"

mapDetectionType(code) ==
  CASE code = "w" -> "wifi"
    [] code = "b" -> "bluetooth"
    [] code = "c" -> "cellular"

padMacAddress(mac) ==
  IF ~Truthy(mac) THEN Str(<<"UNKNOWN">>) ELSE Str(mac.val \o <<"XXXX">>)

(***************************************************************************)
(* Payload normalisation (goliothWebhookController)                        *)
(***************************************************************************)
\* const data = payload.data ?? payload.value; if (!data) return null;
extractPayloadData(payload) ==
  LET data == Coalesce(payload.data, payload.value)
  IN  IF ~Truthy(data) THEN Null ELSE data

\* path.replace(/^\/+/, ''): drop every leading "/"
RECURSIVE StripLeadingSlashes(_)
StripLeadingSlashes(s) ==
  IF s # <<>> /\ Head(s) = "/" THEN StripLeadingSlashes(Tail(s)) ELSE s

\* s.split('/').pop(): what follows the last "/" (all of s when it has none)
RECURSIVE LastSegment(_)
LastSegment(s) ==
  IF \E i \in 1..Len(s) : s[i] = "/" THEN LastSegment(Tail(s)) ELSE s

\* the leading "/" removed and nothing else
normalizePath_StripOnly(path) ==
  IF ~Truthy(path) THEN Str(<<>>) ELSE Str(StripLeadingSlashes(path.val))

\* the first segment taken instead of the last
normalizePath_FirstSegment(path) ==
  LET stripped == StripLeadingSlashes(path.val)
      n == IF \E i \in 1..Len(stripped) : stripped[i] = "/"
           THEN (CHOOSE i \in 1..Len(stripped) :
                   stripped[i] = "/" /\ \A j \in 1..(i - 1) : stripped[j] # "/") - 1
           ELSE Len(stripped)
  IN  IF ~Truthy(path) THEN Str(<<>>) ELSE Str(SubSeq(stripped, 1, n))

normalizePath(path) ==
  IF ~Truthy(path) THEN Str(<<>>)
  ELSE OrElse(Str(LastSegment(StripLeadingSlashes(path.val))), Str(<<>>))

(***************************************************************************)
(* The store: Prisma models Device and Alert                               *)
(***************************************************************************)
Date(ms) == [type |-> "date", ms |-> ms]

\* an optional column: a value that was not supplied is stored as NULL
Column(x) == IF x = Undefined THEN Null ELSE x

\* the earlier revision of handleDetection: prisma.device.update, whose failure
\* for a missing device is swallowed
detectionUpsert_UpdateOnly(devs, deviceId, timestamp) ==
  IF deviceId \in DOMAIN devs
  THEN [devs EXCEPT ![deviceId] =
          [@ EXCEPT !.lastSeen = timestamp, !.online = TRUE, !.detectionCount = @ + 1]]
  ELSE devs

\* the counter written instead of incremented
detectionUpsert_CountSet(devs, deviceId, timestamp) ==
  [d \in DOMAIN devs \cup {deviceId} |->
     IF d = deviceId
     THEN IF d \in DOMAIN devs
          THEN [devs[d] EXCEPT !.lastSeen = timestamp, !.online = TRUE, !.detectionCount = 1]
          ELSE [id |-> deviceId, name |-> deviceId, online |-> TRUE,
                lastSeen |-> timestamp, detectionCount |-> 1,
                batteryPercent |-> Null, signalStrength |-> Null,
                latitude |-> Null, longitude |-> Null, firmwareVersion |-> Null]
     ELSE devs[d]]

\* lastSeen kept at the newest event timestamp seen
detectionUpsert_NewestWins(devs, deviceId, timestamp) ==
  IF deviceId \in DOMAIN devs
  THEN [devs EXCEPT ![deviceId] =
          [@ EXCEPT !.lastSeen = IF @ # Null /\ @.ms > timestamp.ms THEN @ ELSE timestamp,
                    !.online = TRUE,
                    !.detectionCount = @ + 1]]
  ELSE [d \in DOMAIN devs \cup {deviceId} |->
          IF d = deviceId
          THEN [id |-> deviceId, name |-> deviceId, online |-> TRUE,
                lastSeen |-> timestamp, detectionCount |-> 1,
                batteryPercent |-> Null, signalStrength |-> Null,
                latitude |-> Null, longitude |-> Null, firmwareVersion |-> Null]
          ELSE devs[d]]

\* a device created by a detection left at the column default of the counter
detectionUpsert_CreateZero(devs, deviceId, timestamp) ==
  IF deviceId \in DOMAIN devs
  THEN [devs EXCEPT ![deviceId] =
          [@ EXCEPT !.lastSeen = timestamp, !.online = TRUE, !.detectionCount = @ + 1]]
  ELSE [d \in DOMAIN devs \cup {deviceId} |->
          IF d = deviceId
          THEN [id |-> deviceId, name |-> deviceId, online |-> TRUE,
                lastSeen |-> timestamp, detectionCount |-> 0,
                batteryPercent |-> Null, signalStrength |-> Null,
                latitude |-> Null, longitude |-> Null, firmwareVersion |-> Null]
          ELSE devs[d]]

\* prisma.device.upsert of handleDetection, applied to the table devs
detectionUpsert(devs, deviceId, timestamp) ==
  IF deviceId \in DOMAIN devs
  THEN [devs EXCEPT ![deviceId] =
          [@ EXCEPT !.lastSeen = timestamp,
                    !.online = TRUE,
                    !.detectionCount = @ + 1]]
  ELSE [d \in DOMAIN devs \cup {deviceId} |->
          IF d = deviceId
          THEN [id |-> deviceId, name |-> deviceId, online |-> TRUE,
                lastSeen |-> timestamp, detectionCount |-> 1,
                batteryPercent |-> Null, signalStrength |-> Null,
                latitude |-> Null, longitude |-> Null, firmwareVersion |-> Null]
          ELSE devs[d]]

\* a heartbeat without rssi given the lowest category instead of none
signalStrengthCategory_Default(rssi) ==
  IF Truthy(rssi) /\ rssi.val > -50 THEN Str(<<"excellent">>)
  ELSE IF Truthy(rssi) /\ rssi.val > -70 THEN Str(<<"good">>)
  ELSE IF Truthy(rssi) /\ rssi.val > -85 THEN Str(<<"fair">>)
  ELSE Str(<<"poor">>)

\* health.rssi ? (... bands ...) : undefined
signalStrengthCategory(rssi) ==
  IF Truthy(rssi)
  THEN IF rssi.val > -50 THEN Str(<<"excellent">>)
       ELSE IF rssi.val > -70 THEN Str(<<"good">>)
       ELSE IF rssi.val > -85 THEN Str(<<"fair">>)
       ELSE Str(<<"poor">>)
  ELSE Undefined

\* a device created by a heartbeat given a placeholder name
heartbeatUpsert_CreateUnnamed(devs, deviceId, timestamp, bat, signalStrength) ==
  [d \in DOMAIN devs \cup {deviceId} |->
     IF d # deviceId THEN devs[d]
     ELSE IF d \in DOMAIN devs
     THEN [devs[d] EXCEPT !.online = TRUE,
                          !.batteryPercent = IF bat = Undefined THEN @ ELSE bat,
                          !.signalStrength = IF signalStrength = Undefined THEN @ ELSE signalStrength,
                          !.lastSeen = timestamp]
     ELSE [id |-> deviceId, name |-> "Unnamed", online |-> TRUE,
           batteryPercent |-> Column(bat), signalStrength |-> Column(signalStrength),
           lastSeen |-> timestamp, detectionCount |-> 0,
           latitude |-> Null, longitude |-> Null, firmwareVersion |-> Null]]

\* the counter of an existing device cleared by a heartbeat
heartbeatUpsert_ResetsCount(devs, deviceId, timestamp, bat, signalStrength) ==
  [d \in DOMAIN devs \cup {deviceId} |->
     IF d # deviceId THEN devs[d]
     ELSE IF d \in DOMAIN devs
     THEN [devs[d] EXCEPT !.online = TRUE,
                          !.batteryPercent = IF bat = Undefined THEN @ ELSE bat,
                          !.signalStrength = IF signalStrength = Undefined THEN @ ELSE signalStrength,
                          !.lastSeen = timestamp,
                          !.detectionCount = 0]
     ELSE [id |-> deviceId, name |-> deviceId, online |-> TRUE,
           batteryPercent |-> Column(bat), signalStrength |-> Column(signalStrength),
           lastSeen |-> timestamp, detectionCount |-> 0,
           latitude |-> Null, longitude |-> Null, firmwareVersion |-> Null]]

\* every heartbeat counted on the device
heartbeatUpsert_Counts(devs, deviceId, timestamp, bat, signalStrength) ==
  [d \in DOMAIN devs \cup {deviceId} |->
     IF d # deviceId THEN devs[d]
     ELSE IF d \in DOMAIN devs
     THEN [devs[d] EXCEPT !.online = TRUE,
                          !.batteryPercent = IF bat = Undefined THEN @ ELSE bat,
                          !.signalStrength = IF signalStrength = Undefined THEN @ ELSE signalStrength,
                          !.lastSeen = timestamp,
                          !.detectionCount = @ + 1]
     ELSE [id |-> deviceId, name |-> deviceId, online |-> TRUE,
           batteryPercent |-> Column(bat), signalStrength |-> Column(signalStrength),
           lastSeen |-> timestamp, detectionCount |-> 0,
           latitude |-> Null, longitude |-> Null, firmwareVersion |-> Null]]

\* a value missing from the event written as NULL over the stored one
heartbeatUpsert_NullsMissing(devs, deviceId, timestamp, bat, signalStrength) ==
  [d \in DOMAIN devs \cup {deviceId} |->
     IF d # deviceId THEN devs[d]
     ELSE IF d \in DOMAIN devs
     THEN [devs[d] EXCEPT !.online = TRUE, !.batteryPercent = Column(bat),
                          !.signalStrength = Column(signalStrength), !.lastSeen = timestamp]
     ELSE [id |-> deviceId, name |-> deviceId, online |-> TRUE,
           batteryPercent |-> Column(bat), signalStrength |-> Column(signalStrength),
           lastSeen |-> timestamp, detectionCount |-> 0,
           latitude |-> Null, longitude |-> Null, firmwareVersion |-> Null]]

\* prisma.device.upsert of handleHeartbeat: an undefined value in `update`
\* leaves the column alone, in `create` it leaves the column NULL
heartbeatUpsert(devs, deviceId, timestamp, bat, signalStrength) ==
  IF deviceId \in DOMAIN devs
  THEN [devs EXCEPT ![deviceId] =
          [@ EXCEPT !.online = TRUE,
                    !.batteryPercent = IF bat = Undefined THEN @ ELSE bat,
                    !.signalStrength = IF signalStrength = Undefined THEN @ ELSE signalStrength,
                    !.lastSeen = timestamp]]
  ELSE [d \in DOMAIN devs \cup {deviceId} |->
          IF d = deviceId
          THEN [id |-> deviceId, name |-> deviceId, online |-> TRUE,
                batteryPercent |-> Column(bat), signalStrength |-> Column(signalStrength),
                lastSeen |-> timestamp, detectionCount |-> 0,
                latitude |-> Null, longitude |-> Null, firmwareVersion |-> Null]
          ELSE devs[d]]

(***************************************************************************)
(* handleDetection: what it computes before the first store call           *)
(***************************************************************************)
\* the earlier revision: the strength is det.r whatever the kind
detectionSignalStrength_DirectOnly(det) == Coalesce(det.r, Num(-100))

\* det.t === 'c' ? (det.peak ?? det.avg ?? -100) : (det.r ?? -100)
detectionSignalStrength(det) ==
  IF det.t = "c"
  THEN Coalesce(det.peak, Coalesce(det.avg, Num(-100)))
  ELSE Coalesce(det.r, Num(-100))

detectionMetadata(det) ==
  LET keys == {"zone", "distance"}
                \cup (IF det.ch # Undefined THEN {"channel"} ELSE {})
                \cup (IF Truthy(det.name) THEN {"deviceName"} ELSE {})
                \cup (IF det.avg # Undefined THEN {"cellularAvg"} ELSE {})
                \cup (IF det.delta # Undefined THEN {"cellularDelta"} ELSE {})
                \cup (IF det.peak # Undefined THEN {"cellularPeak"} ELSE {})
  IN  [k \in keys |->
         CASE k = "zone" -> det.zone
           [] k = "distance" -> det.dist
           [] k = "channel" -> det.ch
           [] k = "deviceName" -> det.name
           [] k = "cellularAvg" -> det.avg
           [] k = "cellularDelta" -> det.delta
           [] k = "cellularPeak" -> det.peak]

\* new Date(data.ts * 1000)
eventTimestamp(data) == Date(data.ts * 1000)

\* the row prisma.alert.create is asked to insert (id is given by the store)
alertData(data) ==
  LET det == data.det
      signalStrength == detectionSignalStrength(det)
  IN  [deviceId |-> data.did,
       timestamp |-> eventTimestamp(data),
       threatLevel |-> calculateThreatLevel(signalStrength, det.zone, det.t),
       detectionType |-> mapDetectionType(det.t),
       rssi |-> signalStrength,
       macAddress |-> padMacAddress(det.mac),
       cellularStrength |-> Column(det.peak),
       isReviewed |-> FALSE,
       isFalsePositive |-> FALSE,
       metadata |-> detectionMetadata(det)]

(***************************************************************************)
(* Bounds of the model                                                     *)
(***************************************************************************)
\* webhook requests handled concurrently in Spec
MaxRequests == 2
\* tokens in a path string
MaxPathLen == 4
\* heartbeat lte rssi values are 0, -1, ..., -MaxLteAtten
MaxLteAtten == 90
\* classifier signal strengths are 0, -1, ..., -MaxAtten
MaxAtten == 101
\* classifier zones are 0 .. MaxZone
MaxZone == 4

(***************************************************************************)
(* State                                                                   *)
(***************************************************************************)
VARIABLES
  devices,   \* table Device: a function from the ids of the stored rows to the rows
  alerts,    \* table Alert: the rows in insertion order, row i has id i
  emitted,   \* what io.emit has sent, in order
  io,        \* websocketService's `io`: undefined until initializeWebSocket has run,
             \* then the server with the sockets connected to it
  secret,    \* config.goliothWebhookSecret
  req,       \* the webhook requests: position in the handler, body, header, response
  devices0,  \* history: table Device at start
  cin,       \* classifier harness: the arguments
  cout       \* classifier harness: the result

vars == <<devices, alerts, emitted, io, secret, req, devices0, cin, cout>>

Slots == 1..MaxRequests
DeviceIds == {"dev-1", "dev-2"}
SocketIds == {"socket-1"}

\* new SocketIOServer(...): the server and the sockets connected to it
Server(sockets) == [type |-> "object", sockets |-> sockets]

NoStatus == 0
IdleRequest == [pc |-> "idle"]

(***************************************************************************)
(* handleGoliothWebhook / handleDetection / handleHeartbeat up to their    *)
(* first await: the position the request is left at                        *)
(***************************************************************************)
Responded(payload, apiKey, route, status) ==
  [pc |-> "done", payload |-> payload, apiKey |-> apiKey, route |-> route,
   data |-> Null, alert |-> Null, status |-> status, steps |-> <<>>]

Awaiting(payload, apiKey, route, data) ==
  [pc |-> "awaitDeviceUpsert", payload |-> payload, apiKey |-> apiKey, route |-> route,
   data |-> data, alert |-> Null, status |-> NoStatus, steps |-> <<>>]

\* the earlier revision of handleDetection: `const { data } = payload` with no
\* check, so that a missing data object throws and is answered 500
handleDetectionStart_NoDataCheck(payload, apiKey) ==
  LET data == payload.data
  IN  IF data = Undefined \/ data = Null THEN Responded(payload, apiKey, "detection", 500)
      ELSE IF ~Truthy(data.det) THEN Responded(payload, apiKey, "detection", 200)
      ELSE Awaiting(payload, apiKey, "detection", data)

handleDetectionStart(payload, apiKey) ==
  LET data == extractPayloadData(payload)
  IN  IF ~Truthy(data) THEN Responded(payload, apiKey, "detection", 200)
      ELSE IF ~Truthy(data.det) THEN Responded(payload, apiKey, "detection", 200)
      ELSE Awaiting(payload, apiKey, "detection", data)

\* the check of the health block left out: reading health.rssi throws
handleHeartbeatStart_NoHealthCheck(payload, apiKey) ==
  LET data == extractPayloadData(payload)
  IN  IF ~Truthy(data) THEN Responded(payload, apiKey, "heartbeat", 200)
      ELSE IF ~Truthy(data.health) THEN Responded(payload, apiKey, "heartbeat", 500)
      ELSE Awaiting(payload, apiKey, "heartbeat", data)

handleHeartbeatStart(payload, apiKey) ==
  LET data == extractPayloadData(payload)
  IN  IF ~Truthy(data) THEN Responded(payload, apiKey, "heartbeat", 200)
      ELSE IF ~Truthy(data.health) THEN Responded(payload, apiKey, "heartbeat", 200)
      ELSE Awaiting(payload, apiKey, "heartbeat", data)

\* the credential compared only when the header is there
handleGoliothWebhookStart_KeyOptional(payload, apiKey, webhookSecret) ==
  IF Truthy(webhookSecret) /\ Truthy(apiKey) /\ apiKey # webhookSecret
  THEN Responded(payload, apiKey, "none", 401)
  ELSE LET normalizedPath == normalizePath(OrElse(payload.path, Str(<<>>)))
       IN  IF normalizedPath = Str(<<"detections">>)
           THEN handleDetectionStart(payload, apiKey)
           ELSE IF normalizedPath = Str(<<"heartbeat">>)
           THEN handleHeartbeatStart(payload, apiKey)
           ELSE Responded(payload, apiKey, "none", 200)

handleGoliothWebhookStart(payload, apiKey, webhookSecret) ==
  IF Truthy(webhookSecret) /\ apiKey # webhookSecret
  THEN Responded(payload, apiKey, "none", 401)
  ELSE LET rawPath == OrElse(payload.path, Str(<<>>))
           normalizedPath == normalizePath(rawPath)
       IN  IF normalizedPath = Str(<<"detections">>)
           THEN handleDetectionStart(payload, apiKey)
           ELSE IF normalizedPath = Str(<<"heartbeat">>)
           THEN handleHeartbeatStart(payload, apiKey)
           ELSE Responded(payload, apiKey, "none", 200)

(***************************************************************************)
(* Request bodies and headers                                              *)
(***************************************************************************)
\* GoliothDetectionData; ch, name and delta come with the kind that reports them
DetectionData(t, r, peak, avg, zone, mac) ==
  [type |-> "object", t |-> t, mac |-> mac, r |-> r, zone |-> zone, dist |-> Num(12),
   ch |-> IF t = "w" THEN Num(6) ELSE Undefined,
   name |-> IF t = "b" THEN Str(<<"tag">>) ELSE Undefined,
   peak |-> peak, avg |-> avg,
   delta |-> IF peak # Undefined /\ avg # Undefined THEN Num(10) ELSE Undefined]

\* GoliothHealthData (heap and uptime are never read)
HealthData(bat, rssi) == [type |-> "object", bat |-> bat, rssi |-> rssi]

\* GoliothPayloadData
PayloadData(did, ts, det, health) ==
  [type |-> "object", did |-> did, ts |-> ts, det |-> det, health |-> health]

\* GoliothWebhookPayload
Payload(path, data, value, device_id, timestamp) ==
  [type |-> "object", path |-> path, data |-> data, value |-> value,
   device_id |-> device_id, timestamp |-> timestamp]

\* the three documented envelopes around the same inner object
EnvelopePathData(path, inner) == Payload(path, inner, Undefined, Undefined, Undefined)
EnvelopePathValue(path, inner) == Payload(path, Undefined, inner, Undefined, Undefined)
EnvelopeInjectMetadata(inner) ==
  Payload(Undefined, inner, Undefined, Str(<<inner.did>>), Num(inner.ts))

WifiDet == DetectionData("w", Num(-68), Undefined, Undefined, Num(1), Str(<<"A1B2C3D4">>))
CellDet == DetectionData("c", Undefined, Num(-45), Num(-52), Num(0), Undefined)
Health0 == HealthData(Num(87), Num(-60))

DetVariants ==
  { DetectionData(t, r, peak, avg, zone, mac) :
      t \in {"w", "b", "c"},
      r \in {Undefined, Num(-40), Num(-68)},
      peak \in {Undefined, Num(-45)},
      avg \in {Undefined, Num(-52)},
      zone \in {Num(0), Num(1)},
      mac \in {Undefined, Str(<<"A1B2C3D4">>)} }

HealthVariants ==
  { HealthData(bat, rssi) :
      bat \in {Undefined, Num(0), Num(87)},
      rssi \in {Undefined} \cup { Num(0 - n) : n \in 0..MaxLteAtten } }

\* inner objects by which sub-objects they carry
InnerShapes(did, ts) ==
  { PayloadData(did, ts, det, health) :
      det \in {Undefined, WifiDet, CellDet}, health \in {Undefined, Health0} }

\* path strings: every sequence of at most MaxPathLen tokens
PathTokens == {"/", ".s", "detections", "heartbeat"}
PathStrings == UNION { [1..n -> PathTokens] : n \in 0..MaxPathLen }
Paths == {Undefined} \cup { Str(p) : p \in PathStrings }
PlainPaths == {Undefined, Str(<<"detections">>), Str(<<"heartbeat">>),
               Str(<<"/", "detections">>), Str(<<"/", ".s", "heartbeat">>), Str(<<"unknown">>)}

ValidKey == Str(<<"dev-webhook-secret">>)
ApiKeys == {Undefined, ValidKey, Str(<<"wrong">>), Str(<<>>)}
Secrets == {Str(<<>>), ValidKey}

Request(payload, apiKey) == [payload |-> payload, apiKey |-> apiKey]

\* requests of the one-request specification: each part varies one thing widely
PathRequests ==
  { Request(EnvelopePathData(path, inner), ValidKey) :
      path \in Paths,
      inner \in {PayloadData("dev-1", 1000, WifiDet, Undefined),
                 PayloadData("dev-1", 1000, Undefined, Health0)} }

EnvelopeRequests ==
  { Request(Payload(path, data, value, device_id, Undefined), ValidKey) :
      path \in PlainPaths,
      data \in {Undefined, Null} \cup InnerShapes("dev-1", 1000),
      value \in {Undefined, Null} \cup InnerShapes("dev-2", 2000),
      device_id \in {Undefined, Str(<<"dev-1">>)} }

DocumentedEnvelopeRequests ==
  UNION { { Request(EnvelopePathData(path, inner), ValidKey),
            Request(EnvelopePathValue(path, inner), ValidKey),
            Request(EnvelopeInjectMetadata(inner), ValidKey) } :
          path \in {Str(<<"detections">>), Str(<<"heartbeat">>)},
          inner \in InnerShapes("dev-1", 1000) \cup InnerShapes("dev-2", 2000) }

DetectionRequests ==
  { Request(EnvelopePathData(Str(<<"detections">>), PayloadData(did, 1000, det, Undefined)), ValidKey) :
      did \in DeviceIds, det \in DetVariants }

HeartbeatRequests ==
  { Request(EnvelopePathData(Str(<<"heartbeat">>), PayloadData("dev-1", 1000, Undefined, health)), ValidKey) :
      health \in HealthVariants }

KeyRequests ==
  { Request(Payload(path, inner, Undefined, Undefined, Undefined), apiKey) :
      path \in PlainPaths,
      inner \in {Undefined} \cup InnerShapes("dev-1", 1000),
      apiKey \in ApiKeys }

WideRequests ==
  PathRequests \cup EnvelopeRequests \cup DocumentedEnvelopeRequests
    \cup DetectionRequests \cup HeartbeatRequests \cup KeyRequests

\* requests of the concurrent specification
ConcurrentRequests ==
  { Request(EnvelopePathData(Str(<<"detections">>), PayloadData(did, ts, WifiDet, Undefined)), ValidKey) :
      did \in DeviceIds, ts \in {1000, 2000} }
  \cup
  { Request(EnvelopePathData(Str(<<"heartbeat">>), PayloadData("dev-1", ts, Undefined, Health0)), ValidKey) :
      ts \in {1000, 2000} }
  \cup
  { Request(EnvelopePathData(Str(<<"heartbeat">>),
                             PayloadData("dev-1", 1000, Undefined, HealthData(Num(0), Undefined))),
            ValidKey) }
  \cup
  { Request(EnvelopePathData(Str(<<"detections">>), PayloadData("dev-1", 1000, Undefined, Health0)), Undefined) }

\* table Device at start: empty, or holding a device an operator has set up
EmptyStore == [d \in {} |-> Null]
SeededDevice ==
  [id |-> "dev-1", name |-> "North Gate", online |-> FALSE,
   batteryPercent |-> Num(55), signalStrength |-> Str(<<"fair">>),
   lastSeen |-> Date(500000), detectionCount |-> 3,
   latitude |-> Num(30), longitude |-> Num(0 - 90), firmwareVersion |-> Str(<<"1.0.0">>)]
SeededStore == [d \in {"dev-1"} |-> SeededDevice]
InitialStores == {EmptyStore, SeededStore}

(***************************************************************************)
(* Actions                                                                 *)
(***************************************************************************)
\* index.ts calls initializeWebSocket once; a request may be handled before it
initializeWebSocket ==
  /\ io = Undefined
  /\ io' = Server({})
  /\ UNCHANGED <<devices, alerts, emitted, secret, req, devices0, cin, cout>>

\* io.on('connection'): a client whose token was verified connects
connection(s) ==
  /\ Truthy(io)
  /\ s \notin io.sockets
  /\ io' = Server(io.sockets \cup {s})
  /\ UNCHANGED <<devices, alerts, emitted, secret, req, devices0, cin, cout>>

\* socket.on('disconnect')
disconnect(s) ==
  /\ Truthy(io)
  /\ s \in io.sockets
  /\ io' = Server(io.sockets \ {s})
  /\ UNCHANGED <<devices, alerts, emitted, secret, req, devices0, cin, cout>>

\* a request arrives and its handler runs to its first await, or to its response
handleGoliothWebhook(r, requests) ==
  /\ req[r].pc = "idle"
  /\ \A q \in Slots : q < r => req[q].pc # "idle"
  /\ \E rq \in requests :
       req' = [req EXCEPT ![r] = handleGoliothWebhookStart(rq.payload, rq.apiKey, secret)]
  /\ UNCHANGED <<devices, alerts, emitted, io, secret, devices0, cin, cout>>

\* catch (error) { return res.status(500) }
Caught(rq, step) ==
  [rq EXCEPT !.pc = "done", !.status = 500, !.steps = Append(@, step)]

\* history: the store calls and emits a request has made, in order
Did(rq, step) == [rq EXCEPT !.steps = Append(@, step)]

\* the store carries out the upsert of handleDetection; the handler goes on to
\* ask for the alert insert
detectionUpsertResolves(r) ==
  /\ req[r].pc = "awaitDeviceUpsert"
  /\ req[r].route = "detection"
  /\ devices' = detectionUpsert(devices, req[r].data.did, eventTimestamp(req[r].data))
  /\ req' = [req EXCEPT ![r] = [Did(@, "deviceUpsert") EXCEPT !.pc = "awaitAlertCreate"]]
  /\ UNCHANGED <<alerts, emitted, io, secret, devices0, cin, cout>>

\* the store carries out the upsert of handleHeartbeat
heartbeatUpsertResolves(r) ==
  /\ req[r].pc = "awaitDeviceUpsert"
  /\ req[r].route = "heartbeat"
  /\ LET data == req[r].data
     IN  devices' = heartbeatUpsert(devices, data.did, eventTimestamp(data),
                                    data.health.bat, signalStrengthCategory(data.health.rssi))
  /\ req' = [req EXCEPT ![r] = [Did(@, "deviceUpsert") EXCEPT !.pc = "afterDeviceUpsert"]]
  /\ UNCHANGED <<alerts, emitted, io, secret, devices0, cin, cout>>

\* the rejection swallowed, as the earlier revision did with .catch(() => {...})
deviceUpsertRejects_Swallowed(r) ==
  /\ req[r].pc = "awaitDeviceUpsert"
  /\ req' = [req EXCEPT ![r] = [Did(@, "deviceUpsertRejected") EXCEPT
                                  !.pc = IF @ = "awaitDeviceUpsert" /\ req[r].route = "detection"
                                         THEN "awaitAlertCreate" ELSE "afterDeviceUpsert"]]
  /\ UNCHANGED <<devices, alerts, emitted, io, secret, devices0, cin, cout>>

\* the store fails the upsert: the rejection reaches the catch of handleGoliothWebhook
deviceUpsertRejects(r) ==
  /\ req[r].pc = "awaitDeviceUpsert"
  /\ req' = [req EXCEPT ![r] = Caught(@, "deviceUpsertRejected")]
  /\ UNCHANGED <<devices, alerts, emitted, io, secret, devices0, cin, cout>>

\* an insert that is skipped when the same detection is already stored
alertCreateResolves_Deduplicated(r) ==
  /\ req[r].pc = "awaitAlertCreate"
  /\ req[r].data.did \in DOMAIN devices
  /\ LET row == alertData(req[r].data)
         same == { i \in 1..Len(alerts) : [alerts[i] EXCEPT !.id = 0] = [id |-> 0] @@ row }
         alert == IF same = {} THEN [id |-> Len(alerts) + 1] @@ row
                  ELSE alerts[CHOOSE i \in same : TRUE]
     IN  /\ alerts' = IF same = {} THEN Append(alerts, alert) ELSE alerts
         /\ req' = [req EXCEPT ![r] = [Did(@, "alertCreate") EXCEPT
                                          !.pc = "afterAlertCreate", !.alert = alert]]
  /\ UNCHANGED <<devices, emitted, io, secret, devices0, cin, cout>>

\* the store inserts the alert row, which must reference a stored device
alertCreateResolves(r) ==
  /\ req[r].pc = "awaitAlertCreate"
  /\ req[r].data.did \in DOMAIN devices
  /\ LET alert == [id |-> Len(alerts) + 1] @@ alertData(req[r].data)
     IN  /\ alerts' = Append(alerts, alert)
         /\ req' = [req EXCEPT ![r] = [Did(@, "alertCreate") EXCEPT
                                          !.pc = "afterAlertCreate", !.alert = alert]]
  /\ UNCHANGED <<devices, emitted, io, secret, devices0, cin, cout>>

\* the two steps as one transaction: the failed insert takes the upsert back
alertCreateRejects_RolledBack(r) ==
  /\ req[r].pc = "awaitAlertCreate"
  /\ req' = [req EXCEPT ![r] = Caught(@, "alertCreateRejected")]
  /\ devices' = IF req[r].data.did \in DOMAIN devices
                THEN [devices EXCEPT ![req[r].data.did].detectionCount = @ - 1]
                ELSE devices
  /\ UNCHANGED <<alerts, emitted, io, secret, devices0, cin, cout>>

\* the store fails the insert
alertCreateRejects(r) ==
  /\ req[r].pc = "awaitAlertCreate"
  /\ req' = [req EXCEPT ![r] = Caught(@, "alertCreateRejected")]
  /\ UNCHANGED <<devices, alerts, emitted, io, secret, devices0, cin, cout>>

\* io.emit(event, data): one message, addressed to every connected socket
emit(event, data) == Append(emitted, [event |-> event, data |-> data, to |-> io.sockets])

\* the row as it was handed to prisma.alert.create emitted, not the stored one
broadcastAlert_Unsaved(alert) ==
  IF Truthy(io) THEN emit("alert", [alert EXCEPT !.id = 0]) ELSE emitted

\* websocketService.broadcastAlert
broadcastAlert(alert) ==
  IF Truthy(io) THEN emit("alert", alert) ELSE emitted

\* websocketService.broadcastDeviceStatus
broadcastDeviceStatus(deviceId, status) ==
  IF Truthy(io) THEN emit("device-status", [id |-> deviceId] @@ status) ELSE emitted

\* timestamp.toISOString()
toISOString(date) == [type |-> "string", iso |-> date.ms]

\* broadcastAlert without its `if (io)`: emit on the undefined server throws
handleDetectionResumes_NoGuard(r) ==
  /\ req[r].pc = "afterAlertCreate"
  /\ emitted' = IF Truthy(io) THEN emit("alert", req[r].alert) ELSE emitted
  /\ req' = [req EXCEPT ![r] = IF Truthy(io)
                               THEN [Did(@, "emit") EXCEPT !.pc = "done", !.status = 200]
                               ELSE Caught(@, "emitThrew")]
  /\ UNCHANGED <<devices, alerts, io, secret, devices0, cin, cout>>

\* handleDetection resumes after the insert: broadcast, return, respond 200
handleDetectionResumes(r) ==
  /\ req[r].pc = "afterAlertCreate"
  /\ emitted' = broadcastAlert(req[r].alert)
  /\ req' = [req EXCEPT ![r] = [Did(@, IF Truthy(io) THEN "emit" ELSE "noEmit") EXCEPT
                                    !.pc = "done", !.status = 200]]
  /\ UNCHANGED <<devices, alerts, io, secret, devices0, cin, cout>>

\* the status sent under the event name of the alerts
handleHeartbeatResumes_AlertEvent(r) ==
  /\ req[r].pc = "afterDeviceUpsert"
  /\ LET data == req[r].data
     IN  emitted' = broadcastAlert([id |-> data.did, online |-> TRUE, battery |-> data.health.bat,
                                    signalStrength |-> signalStrengthCategory(data.health.rssi),
                                    lastSeen |-> toISOString(eventTimestamp(data))])
  /\ req' = [req EXCEPT ![r] = [Did(@, IF Truthy(io) THEN "emit" ELSE "noEmit") EXCEPT
                                    !.pc = "done", !.status = 200]]
  /\ UNCHANGED <<devices, alerts, io, secret, devices0, cin, cout>>

\* handleHeartbeat resumes after the upsert: broadcast, return, respond 200
handleHeartbeatResumes(r) ==
  /\ req[r].pc = "afterDeviceUpsert"
  /\ LET data == req[r].data
     IN  emitted' = broadcastDeviceStatus(data.did,
                      [online |-> TRUE, battery |-> data.health.bat,
                       signalStrength |-> signalStrengthCategory(data.health.rssi),
                       lastSeen |-> toISOString(eventTimestamp(data))])
  /\ req' = [req EXCEPT ![r] = [Did(@, IF Truthy(io) THEN "emit" ELSE "noEmit") EXCEPT
                                    !.pc = "done", !.status = 200]]
  /\ UNCHANGED <<devices, alerts, io, secret, devices0, cin, cout>>

\* io.emit throws inside broadcastAlert / broadcastDeviceStatus: nothing is sent
\* and the exception reaches the catch of handleGoliothWebhook
emitThrows(r) ==
  /\ req[r].pc \in {"afterAlertCreate", "afterDeviceUpsert"}
  /\ Truthy(io)
  /\ req' = [req EXCEPT ![r] = Caught(@, "emitThrew")]
  /\ UNCHANGED <<devices, alerts, emitted, io, secret, devices0, cin, cout>>

Processing(r) ==
  \/ detectionUpsertResolves(r)
  \/ heartbeatUpsertResolves(r)
  \/ deviceUpsertRejects(r)
  \/ alertCreateResolves(r)
  \/ alertCreateRejects(r)
  \/ handleDetectionResumes(r)
  \/ handleHeartbeatResumes(r)
  \/ emitThrows(r)

(***************************************************************************)
(* Specifications                                                          *)
(***************************************************************************)
NoClassifierCall == [rssi |-> Undefined, zone |-> Undefined, detectionType |-> "w"]

InitStore ==
  /\ devices \in InitialStores
  /\ devices0 = devices
  /\ alerts = <<>>
  /\ emitted = <<>>
  /\ io = Undefined
  /\ secret \in Secrets
  /\ req = [r \in Slots |-> IdleRequest]
  /\ cin = NoClassifierCall
  /\ cout = "none"

\* concurrent webhook requests, with the secret configured and no client connected
Init == InitStore /\ secret = ValidKey

Next ==
  \/ initializeWebSocket
  \/ \E r \in Slots : handleGoliothWebhook(r, ConcurrentRequests)
  \/ \E r \in Slots : Processing(r)

Spec == Init /\ [][Next]_vars

\* one webhook request, any body and header, while clients come and go
NextRequest ==
  \/ initializeWebSocket
  \/ \E s \in SocketIds : connection(s)
  \/ \E s \in SocketIds : disconnect(s)
  \/ handleGoliothWebhook(1, WideRequests)
  \/ Processing(1)

SpecRequest == InitStore /\ [][NextRequest]_vars

\* the classifier called on its own
ClassifierRssi ==
  {Undefined, Null, NaN, Str(<<"-45">>), Num(5)} \cup { Num(0 - n) : n \in 0..MaxAtten }
ClassifierZones ==
  {Undefined, Null, NaN, Str(<<"0">>), Num(0 - 1)} \cup { Num(z) : z \in 0..MaxZone }
DetectionCodes == {"w", "b", "c"}

InitClassify ==
  /\ devices = EmptyStore
  /\ devices0 = devices
  /\ alerts = <<>>
  /\ emitted = <<>>
  /\ io = Undefined
  /\ secret = Str(<<>>)
  /\ req = [r \in Slots |-> IdleRequest]
  /\ cin \in [rssi : ClassifierRssi, zone : ClassifierZones, detectionType : DetectionCodes]
  /\ cout = "none"

classify ==
  /\ cout = "none"
  /\ cout' = calculateThreatLevel(cin.rssi, cin.zone, cin.detectionType)
  /\ UNCHANGED <<devices, alerts, emitted, io, secret, req, devices0, cin>>

SpecClassify == InitClassify /\ [][classify]_vars

(***************************************************************************)
(* Vocabulary of the properties                                            *)
(***************************************************************************)
Started(r) == req[r].pc # "idle"
Done(r) == req[r].pc = "done"
Has(r, step) == Started(r) /\ \E i \in 1..Len(req[r].steps) : req[r].steps[i] = step

\* requests that were routed to handleDetection / handleHeartbeat and got past
\* its checks, for device d
DetectionsFor(d) ==
  { r \in Slots : Started(r) /\ req[r].route = "detection" /\ req[r].data # Null
                    /\ req[r].data.did = d }
HeartbeatsFor(d) ==
  { r \in Slots : Started(r) /\ req[r].route = "heartbeat" /\ req[r].data # Null
                    /\ req[r].data.did = d }

AlertsOf(d) == { i \in 1..Len(alerts) : alerts[i].deviceId = d }
Emitted(event) == { i \in 1..Len(emitted) : emitted[i].event = event }

StoreUntouched == devices = devices0 /\ alerts = <<>> /\ emitted = <<>>

(***************************************************************************)
(* C1: no orphaned Alert. Every stored Alert names a stored Device, the    *)
(* insert of a detection never finds its device missing, and a detection   *)
(* for a device unknown at start leaves one Device (name = id, and         *)
(* detectionCount = 1 when it is the only detection) and one Alert per     *)
(* completed insert.                                                       *)
(***************************************************************************)
C1_NoOrphanAlert ==
  /\ \A i \in 1..Len(alerts) : alerts[i].deviceId \in DOMAIN devices
  /\ \A r \in Slots : req[r].pc = "awaitAlertCreate" => req[r].data.did \in DOMAIN devices
  /\ \A d \in DeviceIds \ DOMAIN devices0 :
       LET upserted == { r \in DetectionsFor(d) : Has(r, "deviceUpsert") }
           inserted == { r \in DetectionsFor(d) : Has(r, "alertCreate") }
       IN  /\ upserted # {} => /\ d \in DOMAIN devices
                               /\ devices[d].id = d
                               /\ devices[d].name = d
           /\ Cardinality(upserted) = 1 => devices[d].detectionCount = 1
           /\ Cardinality(AlertsOf(d)) = Cardinality(inserted)
           /\ \A r \in inserted : alerts[req[r].alert.id] = req[r].alert

C1_Witness ==
  \E r \in Slots :
    /\ Done(r) /\ Has(r, "alertCreate")
    /\ req[r].data.did \notin DOMAIN devices0
    /\ Cardinality(DetectionsFor(req[r].data.did)) = 1
    /\ Cardinality(AlertsOf(req[r].data.did)) = 1
    /\ devices[req[r].data.did].detectionCount = 1

(***************************************************************************)
(* C2: no detection increment is lost. For every device, detectionCount is *)
(* its value at start (0 for a device that did not exist, as for one a     *)
(* heartbeat creates) plus the number of detection requests whose upsert   *)
(* has completed, whatever the interleaving with other detections and      *)
(* heartbeats.                                                             *)
(***************************************************************************)
C2_DetectionCountIsN ==
  \A d \in DeviceIds :
    LET n == Cardinality({ r \in DetectionsFor(d) : Has(r, "deviceUpsert") })
        base == IF d \in DOMAIN devices0 THEN devices0[d].detectionCount ELSE 0
    IN  /\ n > 0 => d \in DOMAIN devices
        /\ d \in DOMAIN devices => devices[d].detectionCount = base + n

\* two detections of one device have both completed their upsert before either
\* insert, with a heartbeat of the same device in between or before
C2_Witness ==
  \E d \in DeviceIds :
    /\ Cardinality({ r \in DetectionsFor(d) : req[r].pc = "awaitAlertCreate" }) >= 2
    /\ d \notin DOMAIN devices0
    /\ devices[d].detectionCount = 2

\* a heartbeat made first contact and a detection followed: the count is 1
C2_WitnessHeartbeatFirst ==
  \E d \in DeviceIds \ DOMAIN devices0, r, q \in Slots :
    /\ r \in HeartbeatsFor(d) /\ q \in DetectionsFor(d)
    /\ r < q /\ req[r].pc = "afterDeviceUpsert" /\ Has(q, "deviceUpsert")
    /\ devices[d].detectionCount = 1
    /\ devices[d].batteryPercent # Null

(***************************************************************************)
(* C3: calculateThreatLevel returns the level of the reference scoring:    *)
(* a signal strength that is not a number counts as -100 and such a zone   *)
(* as 3; 40 for cellular, 30 above -50 or else 15 above -70, 20 for zone 0 *)
(* or else 10 for zone 1; critical from 70, high from 50, medium from 30,  *)
(* else low. The strengths -50 and -70 fall in the lower band.             *)
(***************************************************************************)
C3_ReferenceScore(rssi, zone, kind) ==
  LET strength == IF rssi.type = "number" THEN rssi.val ELSE 0 - 100
      z == IF zone.type = "number" THEN zone.val ELSE 3
  IN  (IF kind = "c" THEN 40 ELSE 0)
      + (IF strength > 0 - 50 THEN 30 ELSE IF strength > 0 - 70 THEN 15 ELSE 0)
      + (IF z = 0 THEN 20 ELSE IF z = 1 THEN 10 ELSE 0)

C3_ReferenceLevel(rssi, zone, kind) ==
  LET score == C3_ReferenceScore(rssi, zone, kind)
  IN  CASE score >= 70 -> "critical"
        [] score < 70 /\ score >= 50 -> "high"
        [] score < 50 /\ score >= 30 -> "medium"
        [] score < 30 -> "low"

C3_Called(rssi, zone, kind) ==
  cout # "none" /\ cin = [rssi |-> Num(rssi), zone |-> Num(zone), detectionType |-> kind]

Absent(x) == x = Undefined \/ x = Null

\* the inner object a body carries: data, or else value
InnerOf(payload) == IF ~Absent(payload.data) THEN payload.data ELSE payload.value

HasDet(inner) == ~Absent(inner) /\ ~Absent(inner.det)
HasHealth(inner) == ~Absent(inner) /\ ~Absent(inner.health)

\* the credential check lets the request through
Authorized(r) == secret = Str(<<>>) \/ req[r].apiKey = secret

Success(status) == status >= 200 /\ status < 300
Failure(status) == status # NoStatus /\ ~Success(status)

\* the request went through handleDetection and stored its alert
StoredDetection(r, inner) ==
  /\ Has(r, "deviceUpsert") /\ Has(r, "alertCreate")
  /\ inner.did \in DOMAIN devices
  /\ devices[inner.did].lastSeen = Date(inner.ts * 1000)
  /\ \E i \in 1..Len(alerts) :
       /\ alerts[i] = req[r].alert
       /\ alerts[i].deviceId = inner.did
       /\ alerts[i].timestamp = Date(inner.ts * 1000)
       /\ alerts[i].detectionType = mapDetectionType(inner.det.t)

(***************************************************************************)
(* C4: the three documented envelopes of one detection are processed       *)
(* alike. Stated on the outcome: a request in any of the three envelopes   *)
(* around an inner object with a det block is routed to detection with     *)
(* that inner object, and when answered 200 has upserted the device and    *)
(* stored the alert.                                                       *)
(***************************************************************************)
C4_DocumentedEnvelopes(inner) ==
  { EnvelopePathData(Str(<<"detections">>), inner),
    EnvelopePathValue(Str(<<"detections">>), inner),
    EnvelopeInjectMetadata(inner) }

C4_EnvelopesAgree ==
  \A r \in Slots, did \in DeviceIds, ts \in {1000, 2000}, det \in {WifiDet, CellDet} :
    LET inner == PayloadData(did, ts, det, Undefined)
    IN  (Started(r) /\ Authorized(r) /\ req[r].payload \in C4_DocumentedEnvelopes(inner))
        => /\ req[r].route = "detection"
           /\ req[r].data = inner
           /\ (Done(r) /\ req[r].status = 200) => StoredDetection(r, inner)

\* what does hold: the two envelopes that carry a path are processed alike
C4_PathEnvelopesAgree ==
  \A r \in Slots, did \in DeviceIds, ts \in {1000, 2000}, det \in {WifiDet, CellDet} :
    LET inner == PayloadData(did, ts, det, Undefined)
    IN  (Started(r) /\ Authorized(r)
           /\ req[r].payload \in C4_DocumentedEnvelopes(inner) \ {EnvelopeInjectMetadata(inner)})
        => /\ req[r].route = "detection"
           /\ req[r].data = inner
           /\ (Done(r) /\ req[r].status = 200) => StoredDetection(r, inner)

C6_RouteInferred ==
  \A r \in Slots :
    LET inner == InnerOf(req[r].payload)
    IN  (Started(r) /\ Authorized(r) /\ req[r].payload.path = Undefined)
        => /\ (HasDet(inner) /\ ~HasHealth(inner))
                => req[r].route = "detection" /\ req[r].data = inner
           /\ (HasHealth(inner) /\ ~HasDet(inner))
                => req[r].route = "heartbeat" /\ req[r].data = inner

(***************************************************************************)
(* C7: a request that cannot be routed (no path and both or neither of     *)
(* det/health, or a path whose last segment is neither detections nor      *)
(* heartbeat) is answered with a failure (not 2xx) and leaves devices,     *)
(* alerts and broadcasts untouched.                                        *)
(***************************************************************************)
\* what follows the last "/" of a path string
C7_LastSegment(path) ==
  LET slashes == { i \in 1..Len(path.val) : path.val[i] = "/" }
      last == IF slashes = {} THEN 0
              ELSE CHOOSE i \in slashes : \A j \in slashes : j <= i
  IN  SubSeq(path.val, last + 1, Len(path.val))

C7_Unroutable(payload) ==
  \/ /\ payload.path = Undefined
     /\ ~Absent(InnerOf(payload))
     /\ HasDet(InnerOf(payload)) = HasHealth(InnerOf(payload))
  \/ /\ payload.path # Undefined
     /\ C7_LastSegment(payload.path) \notin {<<"detections">>, <<"heartbeat">>}

C8_CredentialCheck ==
  \A r \in Slots :
    Started(r) =>
      /\ (secret # Str(<<>>) /\ req[r].apiKey # secret)
           => /\ Done(r) /\ req[r].status = 401
              /\ req[r].steps = <<>>
              /\ StoreUntouched
      /\ secret = Str(<<>>)
           => /\ req[r].status # 401
              /\ (req[r].payload.path = Str(<<"detections">>) /\ HasDet(InnerOf(req[r].payload)))
                   => req[r].route = "detection" /\ req[r].data = InnerOf(req[r].payload)
              /\ (req[r].payload.path = Str(<<"heartbeat">>) /\ HasHealth(InnerOf(req[r].payload)))
                   => req[r].route = "heartbeat" /\ req[r].data = InnerOf(req[r].payload)

\* a valid detection without the header has been refused
C8_Witness ==
  \E r \in Slots :
    /\ secret = ValidKey /\ req[r].pc = "done" /\ req[r].apiKey = Undefined
    /\ req[r].payload.path = Str(<<"detections">>) /\ HasDet(InnerOf(req[r].payload))
    /\ req[r].status = 401

\* with no secret, a detection with a wrong header has stored its alert
C8_WitnessNoSecret ==
  \E r \in Slots :
    /\ secret = Str(<<>>) /\ Started(r) /\ req[r].apiKey = Str(<<"wrong">>)
    /\ Has(r, "alertCreate") /\ req[r].status = 200

(***************************************************************************)
(* C9: a request routed to detection whose inner object has no det block,  *)
(* or routed to heartbeat whose inner object has no health block, is       *)
(* answered 200 and dropped: devices, alerts and broadcasts are untouched. *)
(***************************************************************************)
C9_MissingSubobjectDropped ==
  \A r \in Slots :
    LET inner == InnerOf(req[r].payload)
    IN  (Started(r) /\ ~Absent(inner)
           /\ \/ req[r].route = "detection" /\ ~HasDet(inner)
              \/ req[r].route = "heartbeat" /\ ~HasHealth(inner))
        => /\ Done(r) /\ req[r].status = 200
           /\ req[r].steps = <<>>
           /\ StoreUntouched

\* a heartbeat path around an inner object that has only a det block
C9_Witness ==
  \E r \in Slots :
    /\ Done(r) /\ req[r].route = "heartbeat" /\ req[r].status = 200
    /\ HasDet(InnerOf(req[r].payload)) /\ ~HasHealth(InnerOf(req[r].payload))

(***************************************************************************)
(* C10: when the device upsert of a detection fails, processing stops: no  *)
(* Alert is inserted for the request, no alert is broadcast for it, and it *)
(* is answered with a failure. Every stored Alert and every alert          *)
(* broadcast belongs to a request whose own insert completed.              *)
(***************************************************************************)
C10_UpsertFailureStops ==
  /\ \A r \in Slots :
       (Started(r) /\ req[r].route = "detection" /\ Has(r, "deviceUpsertRejected"))
       => /\ Done(r) /\ Failure(req[r].status)
          /\ req[r].alert = Null
          /\ ~Has(r, "alertCreate") /\ ~Has(r, "emit")
  /\ Len(alerts) = Cardinality({ r \in Slots : Has(r, "alertCreate") })
  /\ \A i \in 1..Len(alerts) : \E r \in Slots : Has(r, "alertCreate") /\ req[r].alert = alerts[i]
  /\ \A i \in Emitted("alert") :
       \E r \in Slots : Has(r, "alertCreate") /\ Has(r, "emit") /\ req[r].alert = emitted[i].data

\* one detection failed at its upsert while another for the same device was stored
C10_Witness ==
  \E r, q \in Slots :
    /\ Has(r, "deviceUpsertRejected") /\ req[r].route = "detection"
    /\ Has(q, "alertCreate") /\ req[q].data.did = req[r].data.did
    /\ Len(alerts) = 1

(***************************************************************************)
(* Vocabulary of the broadcast properties                                  *)
(***************************************************************************)
\* the request got past the checks of handleDetection / handleHeartbeat
Accepted(r) == Started(r) /\ req[r].data # Null

\* every store call of the request has completed
StoreCompleted(r) ==
  /\ Accepted(r)
  /\ Has(r, "deviceUpsert")
  /\ req[r].route = "detection" => Has(r, "alertCreate")

(***************************************************************************)
(* C11: a failure of the broadcast is not fatal. Once the store calls of a *)
(* detection or heartbeat request have completed, the request is answered  *)
(* with success, whether the emit succeeded or raised an error.            *)
(***************************************************************************)
C11_BroadcastFailureNonFatal ==
  \A r \in Slots :
    (Done(r) /\ StoreCompleted(r)) => Success(req[r].status)

\* what does hold: the answer is 500 exactly when the emit raised
C11_EmitErrorIsFatal ==
  \A r \in Slots :
    (Done(r) /\ StoreCompleted(r))
    => /\ Has(r, "emitThrew") <=> req[r].status = 500
       /\ ~Has(r, "emitThrew") <=> req[r].status = 200

(***************************************************************************)
(* C12: with the broadcast layer never initialized, a valid detection or   *)
(* heartbeat request still completes its store calls (device upsert, and   *)
(* alert insert for a detection) and is answered 200; nothing is           *)
(* published.                                                              *)
(***************************************************************************)
C12_UninitializedStillStores ==
  /\ io = Undefined => emitted = <<>>
  /\ Len(emitted) = Cardinality({ r \in Slots : Has(r, "emit") })
  /\ \A r \in Slots :
       Has(r, "noEmit")
       => /\ Done(r) /\ req[r].status = 200
          /\ req[r].steps = IF req[r].route = "detection"
                            THEN <<"deviceUpsert", "alertCreate", "noEmit">>
                            ELSE <<"deviceUpsert", "noEmit">>
          /\ req[r].data.did \in DOMAIN devices
          /\ req[r].route = "detection"
               => /\ alerts[req[r].alert.id] = req[r].alert
                  /\ \A i \in Emitted("alert") : emitted[i].data # req[r].alert
  /\ \A r \in Slots :
       (io = Undefined /\ Done(r) /\ StoreCompleted(r))
       => Has(r, "noEmit") /\ req[r].status = 200

\* a detection has been stored and answered 200 before initializeWebSocket ran
C12_Witness ==
  \E r \in Slots :
    /\ io = Undefined /\ Done(r) /\ req[r].route = "detection"
    /\ Has(r, "noEmit") /\ req[r].status = 200
    /\ Len(alerts) = 1 /\ alerts[1] = req[r].alert
    /\ devices[req[r].data.did].lastSeen = eventTimestamp(req[r].data)

(***************************************************************************)
(* C13: after every successful Device upsert of the endpoint, by a         *)
(* detection as well as by a heartbeat, a device-status event with the     *)
(* device id, online, battery, signal-quality category and lastSeen is     *)
(* published. Stated for the requests that reached their broadcast with    *)
(* the server initialized and the emit not failing.                        *)
(***************************************************************************)
\* a device-status event for the device and timestamp of request r
C13_StatusEventOf(r) ==
  { i \in Emitted("device-status") :
      /\ emitted[i].data.id = req[r].data.did
      /\ emitted[i].data.online = TRUE
      /\ emitted[i].data.lastSeen = toISOString(eventTimestamp(req[r].data))
      /\ {"battery", "signalStrength"} \subseteq DOMAIN emitted[i].data }

C13_StatusAfterEveryUpsert ==
  \A r \in Slots :
    (Done(r) /\ Has(r, "deviceUpsert") /\ Has(r, "emit")) => C13_StatusEventOf(r) # {}

\* what does hold: the heartbeat publishes it, the detection publishes only
\* its alert
C13_StatusAfterHeartbeatOnly ==
  /\ \A r \in Slots :
       (Done(r) /\ Has(r, "deviceUpsert") /\ Has(r, "emit") /\ req[r].route = "heartbeat")
       => \E i \in C13_StatusEventOf(r) :
            /\ emitted[i].data.battery = req[r].data.health.bat
            /\ emitted[i].data.signalStrength = signalStrengthCategory(req[r].data.health.rssi)
  /\ Cardinality(Emitted("device-status"))
       = Cardinality({ r \in Slots : Has(r, "emit") /\ req[r].route = "heartbeat" })

(***************************************************************************)
(* C14: an alert event is published only after its Alert insert has        *)
(* completed and carries exactly the stored Alert; every detection whose   *)
(* insert succeeded is followed, before the response, by exactly one alert *)
(* event addressed to all sockets connected at that moment; no alert event *)
(* is published for an Alert that is not stored.                           *)
(***************************************************************************)
\* the alert events that carry the Alert of request r
C14_AlertEventsOf(r) == { i \in Emitted("alert") : emitted[i].data = req[r].alert }

C14_OnlyStoredAlerts ==
  \A i \in Emitted("alert") :
    /\ emitted[i].data.id \in 1..Len(alerts)
    /\ alerts[emitted[i].data.id] = emitted[i].data
    /\ \E r \in Slots : Has(r, "alertCreate") /\ req[r].alert = emitted[i].data

\* as stated: one alert event for every completed insert
C14_AlertPublishedOnce ==
  /\ C14_OnlyStoredAlerts
  /\ \A r \in Slots :
       (Done(r) /\ Has(r, "alertCreate")) => Cardinality(C14_AlertEventsOf(r)) = 1

\* a step that publishes an alert event publishes one event, for an Alert that
\* is already stored, to the sockets connected at that moment
C14_PublishStep ==
  emitted' # emitted
  => /\ Len(emitted') = Len(emitted) + 1
     /\ SubSeq(emitted', 1, Len(emitted)) = emitted
     /\ LET e == emitted'[Len(emitted')]
        IN  /\ e.to = io.sockets
            /\ e.event = "alert"
                 => \E j \in 1..Len(alerts) : alerts[j] = e.data /\ alerts'[j] = e.data

\* what does hold: exactly one event when the server is initialized and the
\* emit does not raise, and none (answered 200, respectively 500) otherwise
C14_AlertPublishedWhenInitialized ==
  /\ [](/\ C14_OnlyStoredAlerts
        /\ \A r \in Slots :
             Has(r, "alertCreate")
             => /\ Cardinality(C14_AlertEventsOf(r)) = IF Has(r, "emit") THEN 1 ELSE 0
                /\ Has(r, "emit") => Done(r) /\ req[r].status = 200
                /\ Done(r) => \/ Has(r, "emit")
                              \/ Has(r, "noEmit") /\ req[r].status = 200
                              \/ Has(r, "emitThrew") /\ req[r].status = 500)
  /\ [][C14_PublishStep]_vars

\* a detection has been stored and published to the one connected socket
C14_Witness ==
  \E r \in Slots :
    /\ Done(r) /\ req[r].route = "detection" /\ Has(r, "emit")
    /\ Len(emitted) = 1 /\ emitted[1].event = "alert"
    /\ emitted[1].data = alerts[1] /\ emitted[1].to = {"socket-1"}

(***************************************************************************)
(* C15: partial update of an existing Device. A detection changes only     *)
(* detectionCount, lastSeen and online; a heartbeat leaves name and        *)
(* detectionCount unchanged; a heartbeat without the battery value, or     *)
(* without the lte rssi, leaves the stored batteryPercent, respectively    *)
(* the stored signal-quality category, at its previous value. Stated for   *)
(* the one request of SpecRequest against the Device stored at start.      *)
(***************************************************************************)
C15_SameOutside(old, new, changed) ==
  /\ DOMAIN new = DOMAIN old
  /\ \A f \in DOMAIN old \ changed : new[f] = old[f]

C15_PartialUpdate ==
  \A r \in Slots :
    (Accepted(r) /\ Has(r, "deviceUpsert") /\ req[r].data.did \in DOMAIN devices0)
    => LET old == devices0[req[r].data.did]
           new == devices[req[r].data.did]
           health == req[r].data.health
       IN  /\ req[r].route = "detection"
                => /\ C15_SameOutside(old, new, {"detectionCount", "lastSeen", "online"})
                   /\ new.detectionCount = old.detectionCount + 1
                   /\ new.lastSeen = Date(req[r].data.ts * 1000)
                   /\ new.online = TRUE
           /\ req[r].route = "heartbeat"
                => /\ C15_SameOutside(old, new,
                        {"online", "lastSeen", "batteryPercent", "signalStrength"})
                   /\ new.name = old.name
                   /\ new.detectionCount = old.detectionCount
                   /\ new.online = TRUE
                   /\ new.lastSeen = Date(req[r].data.ts * 1000)
                   /\ health.bat = Undefined => new.batteryPercent = old.batteryPercent
                   /\ health.bat # Undefined => new.batteryPercent = health.bat
                   /\ health.rssi = Undefined => new.signalStrength = old.signalStrength

\* a heartbeat with neither battery nor rssi has been applied to the stored device
C15_Witness ==
  \E r \in Slots :
    /\ Done(r) /\ req[r].route = "heartbeat" /\ Has(r, "deviceUpsert")
    /\ req[r].data.health = HealthData(Undefined, Undefined)
    /\ devices0 = SeededStore
    /\ devices["dev-1"].batteryPercent = Num(55)
    /\ devices["dev-1"].signalStrength = Str(<<"fair">>)
    /\ devices["dev-1"].lastSeen = Date(1000000)
    /\ devices["dev-1"].online

\* a detection has been applied to the stored device
C15_WitnessDetection ==
  \E r \in Slots :
    /\ Done(r) /\ req[r].route = "detection" /\ Has(r, "deviceUpsert")
    /\ devices0 = SeededStore /\ req[r].data.did = "dev-1"
    /\ devices["dev-1"].detectionCount = 4
    /\ devices["dev-1"].name = "North Gate"

(***************************************************************************)
(* C16: the same health event (deviceId, timestamp, battery, rssi) applied *)
(* twice leaves the Device that applying it once leaves, for a device that *)
(* was stored before and for one the first application creates; no Alert   *)
(* is created. Stated for the states in which every completed upsert is an *)
(* application of that one event.                                          *)
(***************************************************************************)
\* the requests whose upsert has completed
C16_Applied == { r \in Slots : Accepted(r) /\ Has(r, "deviceUpsert") }

\* table Device after one application of the health event in data
C16_AppliedOnce(data) ==
  heartbeatUpsert(devices0, data.did, eventTimestamp(data), data.health.bat,
                  signalStrengthCategory(data.health.rssi))

C16_HeartbeatIdempotent ==
  \A r \in C16_Applied :
    (/\ req[r].route = "heartbeat"
     /\ \A q \in C16_Applied : req[q].route = "heartbeat" /\ req[q].data = req[r].data)
    => /\ devices = C16_AppliedOnce(req[r].data)
       /\ alerts = <<>>
       /\ Emitted("alert") = {}

\* the same event has been applied twice to a device the first one created
C16_Witness ==
  \E r, q \in Slots :
    /\ r # q /\ Done(r) /\ Done(q)
    /\ req[r].route = "heartbeat" /\ req[q].route = "heartbeat"
    /\ Has(r, "deviceUpsert") /\ Has(q, "deviceUpsert")
    /\ req[r].data = req[q].data
    /\ devices0 = EmptyStore
    /\ devices[req[r].data.did].detectionCount = 0
    /\ devices[req[r].data.did].signalStrength = Null

\* and to the device stored at start
C16_WitnessStored ==
  \E r, q \in Slots :
    /\ r # q /\ Done(r) /\ Done(q)
    /\ req[r].route = "heartbeat" /\ req[q].route = "heartbeat"
    /\ Has(r, "deviceUpsert") /\ Has(q, "deviceUpsert")
    /\ req[r].data = req[q].data
    /\ devices0 = SeededStore
    /\ devices["dev-1"].batteryPercent = Num(87)
    /\ devices["dev-1"].detectionCount = 3

(***************************************************************************)
(* Vocabulary of the heartbeat properties                                  *)
(***************************************************************************)
\* the heartbeat requests whose upsert has completed
HeartbeatApplied == { r \in Slots : Accepted(r) /\ req[r].route = "heartbeat"
                                      /\ Has(r, "deviceUpsert") }

\* the category column after a heartbeat that supplied no category
CategoryKept(d) == IF d \in DOMAIN devices0 THEN devices0[d].signalStrength ELSE Null

\* the device-status events of a request that has emitted
StatusEvents(r) ==
  IF Has(r, "emit") THEN { emitted[i].data : i \in Emitted("device-status") } ELSE {}

(***************************************************************************)
(* C17: the stored and the broadcast signal-quality category of a health   *)
(* event follow the fixed bands: rssi > -50 excellent, else > -70 good,    *)
(* else > -85 fair, else poor, for every numeric rssi that is present      *)
(* (the limits -50, -70, -85 and the value 0 included); the category is    *)
(* absent exactly when the rssi is absent. Stated for the one request of   *)
(* SpecRequest.                                                            *)
(***************************************************************************)
C17_Band(n) ==
  CASE n > 0 - 50 -> <<"excellent">>
    [] n <= 0 - 50 /\ n > 0 - 70 -> <<"good">>
    [] n <= 0 - 70 /\ n > 0 - 85 -> <<"fair">>
    [] n <= 0 - 85 -> <<"poor">>

\* the category is stored and broadcast as the bands give it for rssi
C17_Follows(r, rssi) ==
  LET d == req[r].data.did
  IN  IF rssi = Undefined
      THEN /\ devices[d].signalStrength = CategoryKept(d)
           /\ \A e \in StatusEvents(r) : e.signalStrength = Undefined
      ELSE /\ devices[d].signalStrength = Str(C17_Band(rssi.val))
           /\ \A e \in StatusEvents(r) : e.signalStrength = Str(C17_Band(rssi.val))

C17_CategoryByBands ==
  \A r \in HeartbeatApplied : C17_Follows(r, req[r].data.health.rssi)

\* what does hold: the bands are followed by every rssi but 0, which is
\* taken as absent
C17_CategoryByBandsButZero ==
  \A r \in HeartbeatApplied :
    LET rssi == req[r].data.health.rssi
    IN  C17_Follows(r, IF rssi = Num(0) THEN Undefined ELSE rssi)

(***************************************************************************)
(* C18: a health event with lteRssi -55 yields the category excellent, -60 *)
(* good, -80 fair, -90 poor, and one without lteRssi yields no category.   *)
(***************************************************************************)
\* every applied heartbeat with this rssi has stored and broadcast this category
C18_Yields(n, category) ==
  \A r \in HeartbeatApplied :
    req[r].data.health.rssi = Num(n)
    => /\ devices[req[r].data.did].signalStrength = Str(<<category>>)
       /\ \A e \in StatusEvents(r) : e.signalStrength = Str(<<category>>)

\* every applied heartbeat without rssi has stored and broadcast none
C18_YieldsNone ==
  \A r \in HeartbeatApplied :
    req[r].data.health.rssi = Undefined
    => /\ devices[req[r].data.did].signalStrength = CategoryKept(req[r].data.did)
       /\ \A e \in StatusEvents(r) : e.signalStrength = Undefined

\* as stated
C18_ExamplesAsStated ==
  /\ C18_Yields(0 - 55, "excellent")
  /\ C18_Yields(0 - 60, "good")
  /\ C18_Yields(0 - 80, "fair")
  /\ C18_Yields(0 - 90, "poor")
  /\ C18_YieldsNone

\* what does hold: -55 is below the limit -50 and yields good; -45 yields excellent
C18_Examples ==
  /\ C18_Yields(0 - 45, "excellent")
  /\ C18_Yields(0 - 55, "good")
  /\ C18_Yields(0 - 60, "good")
  /\ C18_Yields(0 - 80, "fair")
  /\ C18_Yields(0 - 90, "poor")
  /\ C18_YieldsNone

\* a heartbeat with rssi -55 has been stored and broadcast as good
C18_Witness ==
  \E r \in HeartbeatApplied :
    /\ Done(r) /\ Has(r, "emit")
    /\ req[r].data.health.rssi = Num(0 - 55)
    /\ devices[req[r].data.did].signalStrength = Str(<<"good">>)
    /\ emitted[1].data.signalStrength = Str(<<"good">>)

\* a heartbeat without rssi has created a device with no category
C18_WitnessNone ==
  \E r \in HeartbeatApplied :
    /\ Done(r) /\ Has(r, "emit")
    /\ req[r].data.health.rssi = Undefined
    /\ devices0 = EmptyStore
    /\ devices[req[r].data.did].signalStrength = Null
    /\ emitted[1].data.signalStrength = Undefined

(***************************************************************************)
(* C19: the signal strength of a detection is selected by kind: for a      *)
(* cellular detection peak if present, else avg if present, else -100; for *)
(* a wifi or bluetooth detection r if present, else -100. The Alert's rssi *)
(* is that value and its threat level is the classifier's level for it.    *)
(***************************************************************************)
C19_Selected(det) ==
  CASE det.t = "c" /\ det.peak # Undefined -> det.peak
    [] det.t = "c" /\ det.peak = Undefined /\ det.avg # Undefined -> det.avg
    [] det.t = "c" /\ det.peak = Undefined /\ det.avg = Undefined -> Num(0 - 100)
    [] det.t \in {"w", "b"} /\ det.r # Undefined -> det.r
    [] det.t \in {"w", "b"} /\ det.r = Undefined -> Num(0 - 100)

C19_StrengthByKind ==
  \A r \in Slots :
    (Accepted(r) /\ Has(r, "alertCreate"))
    => LET det == req[r].data.det
           alert == alerts[req[r].alert.id]
       IN  /\ alert.rssi = C19_Selected(det)
           /\ alert.threatLevel = C3_ReferenceLevel(C19_Selected(det), det.zone, det.t)
           /\ alert.threatLevel = C3_ReferenceLevel(alert.rssi, det.zone, det.t)

\* a cellular detection with no peak, an avg and an r has stored its avg
C19_Witness ==
  \E r \in Slots :
    /\ Done(r) /\ Has(r, "alertCreate")
    /\ req[r].data.det.t = "c"
    /\ req[r].data.det.peak = Undefined
    /\ req[r].data.det.avg = Num(0 - 52)
    /\ req[r].data.det.r = Num(0 - 40)
    /\ alerts[1].rssi = Num(0 - 52)
    /\ alerts[1].threatLevel = IF req[r].data.det.zone = Num(0) THEN "critical" ELSE "high"

\* a wifi detection with no r and a peak has stored -100
C19_WitnessWifi ==
  \E r \in Slots :
    /\ Done(r) /\ Has(r, "alertCreate")
    /\ req[r].data.det.t = "w"
    /\ req[r].data.det.r = Undefined
    /\ req[r].data.det.peak = Num(0 - 45)
    /\ alerts[1].rssi = Num(0 - 100)
    /\ alerts[1].threatLevel = "low"

(***************************************************************************)
(* C20: each accepted detection delivery inserts exactly one new Alert     *)
(* with a fresh id, and nothing is deduplicated: the same detection        *)
(* payload delivered k times leaves k distinct Alerts and k increments of  *)
(* the device's counter.                                                   *)
(***************************************************************************)
\* the detection requests whose insert has completed
C20_Inserted == { r \in Slots : Accepted(r) /\ Has(r, "alertCreate") }

\* the stored Alerts that differ from the Alert of request r in their id at most
C20_AlertsLike(r) ==
  { i \in 1..Len(alerts) : [alerts[i] EXCEPT !.id = 0] = [req[r].alert EXCEPT !.id = 0] }

\* the deliveries of the payload of request r, by how far they have come
C20_Deliveries(r, step) ==
  { q \in Slots : Accepted(q) /\ req[q].payload = req[r].payload /\ Has(q, step) }

C20_NoDeduplication ==
  /\ \A i \in 1..Len(alerts) : alerts[i].id = i
  /\ Len(alerts) = Cardinality(C20_Inserted)
  /\ \A r, q \in C20_Inserted : r # q => req[r].alert.id # req[q].alert.id
  /\ \A r \in Slots :
       (Accepted(r) /\ req[r].route = "detection" /\ Done(r) /\ req[r].status = 200)
       => /\ r \in C20_Inserted
          /\ Cardinality({ i \in 1..Len(alerts) : alerts[i] = req[r].alert }) = 1
  /\ \A r \in C20_Inserted :
       /\ Cardinality(C20_AlertsLike(r)) = Cardinality(C20_Deliveries(r, "alertCreate"))
       /\ LET d == req[r].data.did
              others == { q \in DetectionsFor(d) : Has(q, "deviceUpsert") }
                          \ C20_Deliveries(r, "deviceUpsert")
              base == IF d \in DOMAIN devices0 THEN devices0[d].detectionCount ELSE 0
          IN  devices[d].detectionCount - base - Cardinality(others)
                = Cardinality(C20_Deliveries(r, "deviceUpsert"))

\* the same detection has been delivered twice and answered 200 twice
C20_Witness ==
  \E r, q \in Slots :
    /\ r # q /\ Done(r) /\ Done(q)
    /\ req[r].route = "detection" /\ req[r].status = 200 /\ req[q].status = 200
    /\ Accepted(r) /\ req[q].payload = req[r].payload
    /\ Len(alerts) = 2 /\ alerts[1] # alerts[2]
    /\ [alerts[1] EXCEPT !.id = 0] = [alerts[2] EXCEPT !.id = 0]
    /\ devices0 = SeededStore /\ req[r].data.did = "dev-1"
    /\ devices["dev-1"].detectionCount = 5

(***************************************************************************)
(* C21: a heartbeat request never inserts, changes or removes an Alert and *)
(* never emits an alert event, whatever its outcome: no step of a          *)
(* heartbeat request changes table Alert or adds an alert event.           *)
(***************************************************************************)
\* request r takes a step
C21_Steps(r) == req'[r] # req[r]

C21_HeartbeatStep ==
  \A r \in Slots :
    (C21_Steps(r) /\ req'[r].route = "heartbeat")
    => /\ alerts' = alerts
       /\ \A i \in 1..Len(emitted') : emitted'[i].event = "alert" => i <= Len(emitted)
       /\ SubSeq(emitted', 1, Len(emitted)) = emitted

C21_HeartbeatLeavesAlerts ==
  /\ [](/\ \A r \in Slots :
             (Started(r) /\ req[r].route = "heartbeat")
             => /\ req[r].alert = Null
                /\ ~Has(r, "alertCreate") /\ ~Has(r, "alertCreateRejected")
        /\ \A i \in 1..Len(alerts) :
             \E r \in Slots : req[r].pc # "idle" /\ req[r].route = "detection"
                                /\ req[r].alert = alerts[i]
        /\ \A i \in Emitted("alert") :
             \E r \in Slots : req[r].pc # "idle" /\ req[r].route = "detection"
                                /\ req[r].alert = emitted[i].data)
  /\ [][C21_HeartbeatStep]_vars

\* a heartbeat has been applied and published beside the stored Alert of a detection
C21_Witness ==
  \E r, q \in Slots :
    /\ Done(r) /\ req[r].route = "heartbeat" /\ Has(r, "emit")
    /\ Has(q, "alertCreate") /\ req[q].data.did = req[r].data.did
    /\ Len(alerts) = 1 /\ Emitted("alert") = {}
    /\ Emitted("device-status") # {}

(***************************************************************************)
(* C22: end to end, a cellular detection with peak -45, avg -52, delta 10  *)
(* and zone 0 for a device that does not exist yet is answered with        *)
(* success; afterwards there is one Alert with threatLevel critical,       *)
(* detectionType cellular and rssi -45, and one Device with that id,       *)
(* detectionCount 1 and online. Stated for the request whose store calls   *)
(* and emit did not fail.                                                  *)
(***************************************************************************)
\* the detection block of the scenario
C22_IsScenario(det) ==
  /\ det.t = "c" /\ det.peak = Num(0 - 45) /\ det.avg = Num(0 - 52)
  /\ det.delta = Num(10) /\ det.zone = Num(0)

C22_NothingFailed(r) ==
  ~Has(r, "deviceUpsertRejected") /\ ~Has(r, "alertCreateRejected") /\ ~Has(r, "emitThrew")

C22_CellularEndToEnd ==
  \A r \in Slots :
    (/\ Accepted(r) /\ req[r].route = "detection" /\ Authorized(r)
     /\ C22_IsScenario(req[r].data.det)
     /\ req[r].data.did \notin DOMAIN devices0
     /\ Done(r) /\ C22_NothingFailed(r))
    => LET d == req[r].data.did
       IN  /\ req[r].status = 200
           /\ Len(alerts) = 1
           /\ alerts[1].deviceId = d
           /\ alerts[1].threatLevel = "critical"
           /\ alerts[1].detectionType = "cellular"
           /\ alerts[1].rssi = Num(0 - 45)
           /\ DOMAIN devices = DOMAIN devices0 \cup {d}
           /\ devices[d].id = d
           /\ devices[d].detectionCount = 1
           /\ devices[d].online = TRUE

\* the scenario has run on the empty table and been published
C22_Witness ==
  \E r \in Slots :
    /\ Done(r) /\ req[r].status = 200 /\ Has(r, "emit")
    /\ req[r].route = "detection" /\ C22_IsScenario(req[r].data.det)
    /\ devices0 = EmptyStore /\ req[r].data.did = "dev-1"
    /\ DOMAIN devices = {"dev-1"}
    /\ alerts[1].threatLevel = "critical" /\ devices["dev-1"].detectionCount = 1

(***************************************************************************)
(* C23: a wifi detection posted with r = -68 and zone = 1 creates an Alert *)
(* whose threat level is medium, and that Alert is broadcast with level    *)
(* medium.                                                                 *)
(***************************************************************************)
\* the requests that have stored the Alert of a wifi detection with r -68, zone 1
C23_WifiNear ==
  { r \in Slots : /\ Accepted(r) /\ Has(r, "alertCreate")
                  /\ req[r].data.det.t = "w"
                  /\ req[r].data.det.r = Num(0 - 68)
                  /\ req[r].data.det.zone = Num(1) }

\* the Alert of request r is stored, and broadcast if it was, with this level
C23_Level(r, level) ==
  /\ alerts[req[r].alert.id].threatLevel = level
  /\ \A i \in C14_AlertEventsOf(r) : emitted[i].data.threatLevel = level

C24_RouteOf(path) ==
  CASE C7_LastSegment(path) = <<"detections">> -> "detection"
    [] C7_LastSegment(path) = <<"heartbeat">> -> "heartbeat"
    [] OTHER -> "none"

\* where the handler leaves a request with this body when the path is the plain one
C24_AsPlain(payload, apiKey, plain) ==
  [handleGoliothWebhookStart([payload EXCEPT !.path = Str(<<plain>>)], apiKey, secret)
     EXCEPT !.payload = payload]

C24_RoutedByFinalSegment ==
  \A r \in Slots :
    (Started(r) /\ Authorized(r) /\ req[r].payload.path # Undefined)
    => LET path == req[r].payload.path
       IN  /\ req[r].route = C24_RouteOf(path)
           /\ path \in {Str(<<"/", "detections">>), Str(<<"detections">>),
                        Str(<<"/", ".s", "/", "detections">>)}
                => req[r].route = "detection"
           /\ path \in {Str(<<"/", "heartbeat">>), Str(<<"heartbeat">>),
                        Str(<<"/", ".s", "/", "heartbeat">>)}
                => req[r].route = "heartbeat"
           /\ req[r].route = "detection" /\ req[r].steps = <<>>
                => req[r] = C24_AsPlain(req[r].payload, req[r].apiKey, "detections")
           /\ req[r].route = "heartbeat" /\ req[r].steps = <<>>
                => req[r] = C24_AsPlain(req[r].payload, req[r].apiKey, "heartbeat")

\* a detection under "/.s/detections" has been stored
C24_Witness ==
  \E r \in Slots :
    /\ req[r].pc = "done" /\ req[r].status = 200
    /\ req[r].payload.path = Str(<<"/", ".s", "/", "detections">>)
    /\ req[r].route = "detection" /\ Has(r, "alertCreate")
    /\ Len(alerts) = 1

(***************************************************************************)
(* C25: the upsert and the insert of a detection are not atomic. When the  *)
(* insert fails, or the handler has not got further, after the upsert      *)
(* succeeded, the device keeps the incremented detectionCount and is       *)
(* online, no Alert exists for the event, no alert event is broadcast for  *)
(* it, and the request is not answered with success.                       *)
(***************************************************************************)
\* the detection requests that are past their upsert and have no Alert
C25_Unrecorded ==
  { r \in Slots : /\ Accepted(r) /\ req[r].route = "detection"
                  /\ Has(r, "deviceUpsert")
                  /\ req[r].pc = "awaitAlertCreate" \/ Has(r, "alertCreateRejected") }

C25_UpsertKeptWithoutAlert ==
  \A r \in C25_Unrecorded :
    LET d == req[r].data.did
        upserted == { q \in DetectionsFor(d) : Has(q, "deviceUpsert") }
        base == IF d \in DOMAIN devices0 THEN devices0[d].detectionCount ELSE 0
    IN  /\ d \in DOMAIN devices
        /\ r \in upserted
        /\ devices[d].detectionCount = base + Cardinality(upserted)
        /\ devices[d].online = TRUE
        /\ \E q \in DetectionsFor(d) \cup HeartbeatsFor(d) :
             Has(q, "deviceUpsert") /\ devices[d].lastSeen = eventTimestamp(req[q].data)
        /\ req[r].alert = Null
        /\ Cardinality(AlertsOf(d)) = Cardinality({ q \in upserted : Has(q, "alertCreate") })
        /\ Cardinality(AlertsOf(d)) < Cardinality(upserted)
        /\ ~Has(r, "emit") /\ ~Has(r, "noEmit")
        /\ ~Success(req[r].status)
        /\ Has(r, "alertCreateRejected") => Done(r) /\ req[r].status = 500

\* the only detection of a new device has failed at its insert
C25_Witness ==
  \E r \in C25_Unrecorded :
    /\ Done(r) /\ req[r].status = 500 /\ Has(r, "alertCreateRejected")
    /\ req[r].data.did \notin DOMAIN devices0
    /\ devices[req[r].data.did].detectionCount = 1
    /\ devices[req[r].data.did].lastSeen = eventTimestamp(req[r].data)
    /\ alerts = <<>> /\ emitted = <<>>

(***************************************************************************)
(* C26: for one device, lastSeen is the event timestamp of the request,    *)
(* detection or heartbeat, whose upsert completed last, not the largest    *)
(* timestamp received: an older event whose upsert completes after a newer *)
(* one's moves lastSeen backwards; online stays true.                      *)
(***************************************************************************)
\* the requests whose upsert has completed on device d
C26_Upserted(d) ==
  { r \in DetectionsFor(d) \cup HeartbeatsFor(d) : Has(r, "deviceUpsert") }

\* request r completes its upsert in this step
C26_CompletesUpsert(r) ==
  /\ req[r].pc = "awaitDeviceUpsert"
  /\ req'[r].pc \in {"awaitAlertCreate", "afterDeviceUpsert"}

C26_UpsertStep ==
  /\ \A r \in Slots :
       C26_CompletesUpsert(r)
       => /\ devices'[req[r].data.did].lastSeen = eventTimestamp(req[r].data)
          /\ devices'[req[r].data.did].online = TRUE
          /\ \A d \in DOMAIN devices \ {req[r].data.did} : devices'[d] = devices[d]
  /\ (\A r \in Slots : ~C26_CompletesUpsert(r)) => devices' = devices

C26_LastWriteWins ==
  /\ [](\A d \in DeviceIds :
          /\ C26_Upserted(d) # {}
               => /\ d \in DOMAIN devices
                  /\ devices[d].online = TRUE
                  /\ \E r \in C26_Upserted(d) : devices[d].lastSeen = eventTimestamp(req[r].data)
          /\ (C26_Upserted(d) = {} /\ d \in DOMAIN devices) => devices[d] = devices0[d])
  /\ [][C26_UpsertStep]_vars

\* a heartbeat of time 2000 was applied, then a detection of time 1000:
\* lastSeen has moved back to 1000
C26_Witness ==
  \E r, q \in Slots :
    /\ Accepted(r) /\ Accepted(q)
    /\ req[r].route = "detection" /\ req[q].route = "heartbeat"
    /\ req[r].data.did = req[q].data.did
    /\ req[r].data.ts = 1000 /\ req[q].data.ts = 2000
    /\ Done(q) /\ Has(q, "deviceUpsert") /\ Has(r, "deviceUpsert")
    /\ devices[req[r].data.did].lastSeen = Date(1000000)
    /\ devices[req[r].data.did].online = TRUE

(***************************************************************************)
(* C27: in every state reached through ingestion requests alone, each      *)
(* Device's detectionCount is at least the number of Alerts that reference *)
(* it, and detectionCount never decreases from one state to the next (nor  *)
(* is a Device removed).                                                   *)
(***************************************************************************)
C27_CountCoversAlerts ==
  /\ \A d \in DOMAIN devices : devices[d].detectionCount >= Cardinality(AlertsOf(d))
  /\ \A i \in 1..Len(alerts) : alerts[i].deviceId \in DOMAIN devices

C27_CountStep ==
  \A d \in DOMAIN devices :
    /\ d \in DOMAIN devices'
    /\ devices'[d].detectionCount >= devices[d].detectionCount

C27_CountMonotone == []C27_CountCoversAlerts /\ [][C27_CountStep]_vars

\* on a device a detection created, the count is level with its Alerts after
\* two detections
C27_Witness ==
  \E d \in DeviceIds \ DOMAIN devices0 :
    /\ d \in DOMAIN devices
    /\ devices[d].detectionCount = 2
    /\ Cardinality(AlertsOf(d)) = 2

\* the count is ahead of the Alerts while an insert is awaited
C27_WitnessAhead ==
  \E d \in DeviceIds \ DOMAIN devices0, r \in Slots :
    /\ d \in DOMAIN devices /\ req[r].pc = "awaitAlertCreate" /\ req[r].data.did = d
    /\ devices[d].detectionCount = 1 /\ AlertsOf(d) = {}
    /\ \E q \in HeartbeatsFor(d) : Has(q, "deviceUpsert")

(***************************************************************************)
(* C28: a detection D and a health event H of one device commute on        *)
(* everything but lastSeen. From a table with or without the device, D     *)
(* then H and H then D end with the same name, online, detectionCount,     *)
(* batteryPercent and signal-quality category, and with the same Alerts;   *)
(* which of them made first contact does not matter. Stated for the states *)
(* in which D and H are the only upserts completed on the device.          *)
(***************************************************************************)
\* a Device row without its lastSeen
C28_ButLastSeen(row) == [f \in DOMAIN row \ {"lastSeen"} |-> row[f]]

C28_ApplyD(devs, data) == detectionUpsert(devs, data.did, eventTimestamp(data))
C28_ApplyH(devs, data) ==
  heartbeatUpsert(devs, data.did, eventTimestamp(data), data.health.bat,
                  signalStrengthCategory(data.health.rssi))

C28_DetectionHeartbeatCommute ==
  \A r, q \in Slots :
    (/\ Accepted(r) /\ Accepted(q)
     /\ req[r].route = "detection" /\ req[q].route = "heartbeat"
     /\ req[r].data.did = req[q].data.did
     /\ C26_Upserted(req[r].data.did) = {r, q})
    => LET d == req[r].data.did
           DthenH == C28_ApplyH(C28_ApplyD(devices0, req[r].data), req[q].data)[d]
           HthenD == C28_ApplyD(C28_ApplyH(devices0, req[q].data), req[r].data)[d]
       IN  /\ C28_ButLastSeen(DthenH) = C28_ButLastSeen(HthenD)
           /\ C28_ButLastSeen(devices[d]) = C28_ButLastSeen(DthenH)
           /\ devices[d].lastSeen \in {DthenH.lastSeen, HthenD.lastSeen}
           /\ devices[d].name = IF d \in DOMAIN devices0 THEN devices0[d].name ELSE d
           /\ devices[d].detectionCount
                = (IF d \in DOMAIN devices0 THEN devices0[d].detectionCount ELSE 0) + 1
           /\ AlertsOf(d) = { i \in 1..Len(alerts) : alerts[i] = req[r].alert }
           /\ Done(r) /\ Has(r, "alertCreate")
                => /\ Cardinality(AlertsOf(d)) = 1
                   /\ [alerts[req[r].alert.id] EXCEPT !.id = 0]
                        = [id |-> 0] @@ alertData(req[r].data)

\* the heartbeat made first contact and the detection followed
C28_Witness ==
  \E r, q \in Slots :
    /\ Done(r) /\ Done(q) /\ req[r].route = "detection" /\ req[q].route = "heartbeat"
    /\ Accepted(r) /\ Accepted(q) /\ req[r].data.did = req[q].data.did
    /\ req[r].data.did \notin DOMAIN devices0
    /\ req[r].data.ts # req[q].data.ts
    /\ Has(r, "alertCreate") /\ Has(q, "deviceUpsert")
    /\ devices[req[r].data.did].lastSeen = eventTimestamp(req[r].data)
    /\ devices[req[r].data.did].detectionCount = 1
    /\ devices[req[r].data.did].batteryPercent = req[q].data.health.bat

\* the detection made first contact and the heartbeat followed
C28_WitnessDetectionFirst ==
  \E r, q \in Slots :
    /\ Done(r) /\ Done(q) /\ req[r].route = "detection" /\ req[q].route = "heartbeat"
    /\ Accepted(r) /\ Accepted(q) /\ req[r].data.did = req[q].data.did
    /\ req[r].data.did \notin DOMAIN devices0
    /\ req[r].data.ts # req[q].data.ts
    /\ Has(r, "alertCreate") /\ Has(q, "deviceUpsert")
    /\ devices[req[r].data.did].lastSeen = eventTimestamp(req[q].data)
    /\ devices[req[r].data.did].detectionCount = 1
    /\ devices[req[r].data.did].batteryPercent = req[q].data.health.bat

(***************************************************************************)
(* C29: the range of the classifier depends on the kind: whatever the      *)
(* signal strength and the zone, a wifi or bluetooth detection is never    *)
(* classified critical (its score is at most 50) and a cellular detection  *)
(* is never classified low (its score is at least 40).                     *)
(***************************************************************************)
C29_RangeByKind ==
  cout # "none"
  => /\ cin.detectionType \in {"w", "b"}
          => /\ cout \in {"low", "medium", "high"}
             /\ C3_ReferenceScore(cin.rssi, cin.zone, cin.detectionType) <= 50
     /\ cin.detectionType = "c"
          => /\ cout \in {"medium", "high", "critical"}
             /\ C3_ReferenceScore(cin.rssi, cin.zone, cin.detectionType) >= 40

\* the strongest wifi detection is high, the weakest cellular one medium
C29_Witness ==
  \/ C3_Called(0, 0, "w") /\ cout = "high"
  \/ C3_Called(0 - 100, 3, "c") /\ cout = "medium"

(***************************************************************************)
(* C30: calculateThreatLevel is monotone in the order low < medium < high  *)
(* < critical: with zone and kind fixed a larger signal strength never     *)
(* gives a lower level; with strength and kind fixed zone 0 gives at least *)
(* the level of zone 1, which gives at least that of zones 2 and 3; with   *)
(* strength and zone fixed cellular gives at least the level of wifi or    *)
(* bluetooth.                                                              *)
(***************************************************************************)
C30_Rank(level) ==
  CASE level = "low" -> 0
    [] level = "medium" -> 1
    [] level = "high" -> 2
    [] level = "critical" -> 3

C30_Numbers(S) == { x \in S : x.type = "number" }

C30_Monotone ==
  cout # "none"
  => LET rssi == cin.rssi
         zone == cin.zone
         kind == cin.detectionType
         rank(a, z, k) == C30_Rank(calculateThreatLevel(a, z, k))
     IN  /\ C30_Rank(cout) = rank(rssi, zone, kind)
         /\ rssi.type = "number"
              => \A stronger \in C30_Numbers(ClassifierRssi) :
                   stronger.val >= rssi.val => rank(stronger, zone, kind) >= C30_Rank(cout)
         /\ zone = Num(1) => rank(rssi, Num(0), kind) >= C30_Rank(cout)
         /\ zone \in {Num(2), Num(3)}
              => /\ rank(rssi, Num(1), kind) >= C30_Rank(cout)
                 /\ rank(rssi, Num(0), kind) >= rank(rssi, Num(1), kind)
         /\ kind \in {"w", "b"} => rank(rssi, zone, "c") >= C30_Rank(cout)

\* a call on the limit of a band, where one more dBm raises the level
C30_Witness ==
  /\ C3_Called(0 - 50, 1, "c") /\ cout = "high"
  /\ calculateThreatLevel(Num(0 - 49), Num(1), "c") = "critical"
  /\ calculateThreatLevel(Num(0 - 50), Num(1), "w") = "low"

====
